---- MODULE Spec2Model ----
(***************************************************************************)
(* Book catalog: the File and RemoteBin (JsonBin) document backends, the   *)
(* Relational repository with its Open Library enrichment, and the lookup  *)
(* client.  A document backend operation is a read step (the whole         *)
(* document is fetched and the result is computed in memory) followed, for *)
(* a mutation that found its target, by a write step that replaces the     *)
(* whole document.  Two workers may be between their read and their write  *)
(* at the same time (two requests on the RemoteBin document, two writer    *)
(* processes on the file).                                                 *)
(***************************************************************************)
EXTENDS Integers, Sequences, FiniteSets, TLC

\* ------------------------------------------------------------------ bounds
\* largest id a File or RemoteBin create may assign in the model
MaxId == 2
\* largest id the Relational sequence hands out in the model
MaxRows == 1

\* ------------------------------------------------------------ python values
\* Python None in a scalar field
None == "None"
\* Optional[record]: None is the empty sequence, a record r is <<r>>
NoRecord == <<>>
Some(r) == <<r>>

\* truthiness of a scalar (None, "" and 0 are falsy)
Truthy(v) == v \notin {None, "", "0"}

\* {**a, **b}
DictMerge(a, b) ==
    [k \in (DOMAIN a) \cup (DOMAIN b) |-> IF k \in DOMAIN b THEN b[k] ELSE a[k]]

\* ------------------------------------------------------------------ schemas
BookFields ==
    {"title", "author", "year", "genre", "pages", "available",
     "cover_url", "description", "rating"}

\* BookCreate after validation: the required fields, and the defaults of
\* BookBase for the optional ones the caller left out
BookCreate(title, author, year, genre, pages, available, cover_url, description, rating) ==
    [title |-> title, author |-> author, year |-> year, genre |-> genre,
     pages |-> pages, available |-> available, cover_url |-> cover_url,
     description |-> description, rating |-> rating]

\* the create payloads drawn by the model
CreatePayloads ==
    { BookCreate("Dune", "Herbert", "1965", "scifi", "412", TRUE, None, None, None),
      BookCreate("Emma", "Austen", "2000", "novel", "474", FALSE, "mine", "mine", "1.5") }

\* BookUpdate.model_dump(exclude_unset=True): exactly the fields the caller set
UpdatePayloads ==
    { [title |-> "Zen", rating |-> "5.0"],
      [year |-> None],
      [k \in {} |-> None] }

\* obj_in.model_dump() of a BookCreate: all nine fields
ModelDump(obj_in) == [k \in BookFields |-> obj_in[k]]

\* ----------------------------------------------------- document operations
Ids(data) == {data[i].id : i \in DOMAIN data}

\* max(item['id'] for item in data)
MaxItemId(data) == CHOOSE m \in Ids(data) : \A i \in Ids(data) : i <= m

\* index of the first item whose id matches, 0 when there is none
\* (next(...) in get, the for/enumerate loop in update and delete)
FirstIndex(data, id) ==
    IF \E i \in DOMAIN data : data[i].id = id
    THEN CHOOSE i \in DOMAIN data :
            /\ data[i].id = id
            /\ \A j \in DOMAIN data : data[j].id = id => i <= j
    ELSE 0

\* mutant: data[skip:limit], the end of the window not moved by skip
SliceNoOffset(data, skip, limit) ==
    LET lo == IF skip < Len(data) THEN skip ELSE Len(data)
        hi == IF limit < Len(data) THEN limit ELSE Len(data)
    IN  [i \in 1..(hi - lo) |-> data[lo + i]]

\* data[skip:skip + limit] for skip >= 0 and limit >= 0
Slice(data, skip, limit) ==
    LET lo == IF skip < Len(data) THEN skip ELSE Len(data)
        hi == IF skip + limit < Len(data) THEN skip + limit ELSE Len(data)
    IN  [i \in 1..(hi - lo) |-> data[lo + i]]

\* mutant: data.pop() without the index removes the last item
PopLast(data, idx) == SubSeq(data, 1, Len(data) - 1)

\* data.pop(idx)
Pop(data, idx) ==
    [i \in 1..(Len(data) - 1) |-> IF i < idx THEN data[i] ELSE data[i + 1]]

\* the outcome of the in-memory part of an operation:
\*   ret  what the operation returns, put whether a write of `data` follows
Outcome(ret, put, data) == [ret |-> ret, put |-> put, data |-> data]

\* ---- File backend
FileGet(data, id) ==
    LET idx == FirstIndex(data, id)
    IN  Outcome(IF idx = 0 THEN NoRecord ELSE Some(data[idx]), FALSE, data)

FileGetMulti(data, skip, limit) ==
    Outcome(Slice(data, skip, limit), FALSE, data)

\* mutant: the next id taken from the number of records
FileNewIdCount(data) == Len(data) + 1

FileNewId(data) == IF data # <<>> THEN MaxItemId(data) + 1 ELSE 1

FileCreate(data, obj_in) ==
    LET new_id == FileNewId(data)
        new_item == DictMerge(ModelDump(obj_in), [id |-> new_id])
    IN  Outcome(Some(new_item), TRUE, Append(data, new_item))

\* mutant: {**payload, **item}, the stored values win over the payload
FileUpdatedItemOldWins(item, obj_in) == DictMerge(obj_in, item)

FileUpdatedItem(item, obj_in) == DictMerge(item, obj_in)

FileUpdate(data, id, obj_in) ==
    LET idx == FirstIndex(data, id)
    IN  IF idx = 0
        THEN Outcome(NoRecord, FALSE, data)
        ELSE LET updated_item == FileUpdatedItem(data[idx], obj_in)
             IN  Outcome(Some(updated_item), TRUE, [data EXCEPT ![idx] = updated_item])

FileDelete(data, id) ==
    LET idx == FirstIndex(data, id)
    IN  IF idx = 0
        THEN Outcome(NoRecord, FALSE, data)
        ELSE Outcome(Some(data[idx]), TRUE, Pop(data, idx))

\* ---- RemoteBin backend: the GET response is {"record": [...]}
JsonBinRecords(response) ==
    IF "record" \in DOMAIN response THEN response.record ELSE <<>>

JsonBinGet(response, id) ==
    LET records == JsonBinRecords(response)
        idx == FirstIndex(records, id)
    IN  Outcome(IF idx = 0 THEN NoRecord ELSE Some(records[idx]), FALSE, records)

\* mutant: records[skip:limit], the limit taken as the end index
JsonBinGetMultiEndIndex(response, skip, limit) ==
    LET records == JsonBinRecords(response)
    IN  Outcome(Slice(records, skip, limit - skip), FALSE, records)

JsonBinGetMulti(response, skip, limit) ==
    LET records == JsonBinRecords(response)
    IN  Outcome(Slice(records, skip, limit), FALSE, records)

\* mutant: the largest id handed out again, the + 1 left out
JsonBinNewIdNoStep(records) == IF records # <<>> THEN MaxItemId(records) ELSE 1

JsonBinNewId(records) == IF records # <<>> THEN MaxItemId(records) + 1 ELSE 1

\* mutant: the new id taken from the number of records
JsonBinCreateCount(response, obj_in) ==
    LET records == JsonBinRecords(response)
        new_id == Len(records) + 1
        new_item == DictMerge(ModelDump(obj_in), [id |-> new_id])
    IN  Outcome(Some(new_item), TRUE, Append(records, new_item))

JsonBinCreate(response, obj_in) ==
    LET records == JsonBinRecords(response)
        new_id == JsonBinNewId(records)
        new_item == DictMerge(ModelDump(obj_in), [id |-> new_id])
    IN  Outcome(Some(new_item), TRUE, Append(records, new_item))

JsonBinUpdatedItem(item, obj_in) == DictMerge(item, obj_in)

\* mutant: the PUT is issued whether or not the record was found
JsonBinUpdateAlwaysPut(response, id, obj_in) ==
    LET records == JsonBinRecords(response)
        idx == FirstIndex(records, id)
    IN  IF idx = 0
        THEN Outcome(NoRecord, TRUE, records)
        ELSE LET updated_item == JsonBinUpdatedItem(records[idx], obj_in)
             IN  Outcome(Some(updated_item), TRUE, [records EXCEPT ![idx] = updated_item])

JsonBinUpdate(response, id, obj_in) ==
    LET records == JsonBinRecords(response)
        idx == FirstIndex(records, id)
    IN  IF idx = 0
        THEN Outcome(NoRecord, FALSE, records)
        ELSE LET updated_item == JsonBinUpdatedItem(records[idx], obj_in)
             IN  Outcome(Some(updated_item), TRUE, [records EXCEPT ![idx] = updated_item])

\* mutant: the records behind the deleted one are dropped with it
JsonBinDeleteTruncate(response, id) ==
    LET records == JsonBinRecords(response)
        idx == FirstIndex(records, id)
    IN  IF idx = 0
        THEN Outcome(NoRecord, FALSE, records)
        ELSE Outcome(Some(records[idx]), TRUE, SubSeq(records, 1, idx - 1))

JsonBinDelete(response, id) ==
    LET records == JsonBinRecords(response)
        idx == FirstIndex(records, id)
    IN  IF idx = 0
        THEN Outcome(NoRecord, FALSE, records)
        ELSE Outcome(Some(records[idx]), TRUE, Pop(records, idx))

\* --------------------------------------------------------- lookup client
\* an HTTP exchange either fails (network error, bad status, bad body) or
\* delivers a JSON value
HttpFail == [ok |-> FALSE]
HttpJson(json) == [ok |-> TRUE, json |-> json]

\* what a call ends in: it raises, or it returns a value
Raise(error) == [raised |-> TRUE, error |-> error]
Return(value) == [raised |-> FALSE, value |-> value]

\* mutant: the request is sent without looking at the session
ApiMakeRequestUnchecked(sess, reply) ==
    IF ~reply.ok THEN Return(NoRecord)
    ELSE Return(Some(reply.json))

\* BaseApiClient._make_request: without a session it raises; a failed
\* exchange is logged and None comes back
ApiMakeRequest(sess, reply) ==
    IF sess = "none" THEN Raise("RuntimeError")
    ELSE IF ~reply.ok THEN Return(NoRecord)
    ELSE Return(Some(reply.json))

\* not data: None and the empty dict are falsy
EmptyJson(opt) == opt = NoRecord \/ DOMAIN opt[1] = {}

\* OpenLibraryBookInfo()
OpenLibraryBookInfo ==
    [cover_url |-> None, description |-> None, rating |-> None,
     first_publish_year |-> None]

CoverUrl(cover_i) == "https://covers/id/" \o cover_i \o "-M.jpg"

\* OpenLibraryClient._process_details: the first matching case only
ProcessDetails(details, result) ==
    IF "description" \in DOMAIN details /\ details.description.type = "str"
    THEN [result EXCEPT !.description = details.description.str]
    ELSE IF /\ "description" \in DOMAIN details
            /\ details.description.type = "dict"
            /\ "value" \in DOMAIN details.description.dict
    THEN [result EXCEPT !.description = details.description.dict.value]
    ELSE IF /\ "rating" \in DOMAIN details
            /\ "average" \in DOMAIN details.rating
            /\ details.rating.average # None
    THEN [result EXCEPT !.rating = details.rating.average]
    ELSE result

\* OpenLibraryClient.get_details
GetDetails(sess, detailsReply) ==
    LET data == ApiMakeRequest(sess, detailsReply)
    IN  IF data.raised THEN Raise("ValueError")
        ELSE IF EmptyJson(data.value) THEN Return(NoRecord)
        ELSE Return(data.value)

\* does search go on to the details request for this first result
SearchWantsDetails(book_data) ==
    /\ "first_publish_year" \notin DOMAIN book_data
    /\ "cover_i" \notin DOMAIN book_data
    /\ "key" \in DOMAIN book_data

\* OpenLibraryClient.search; requests counts the HTTP exchanges made, failed
\* tells whether the client had no session or an exchange it made did not
\* deliver
Search(sess, searchReply, detailsReply) ==
    LET data == ApiMakeRequest(sess, searchReply)
    IN  IF data.raised
        THEN [out |-> Raise("ValueError"), requests |-> 0, failed |-> TRUE]
        ELSE IF EmptyJson(data.value) \/ "docs" \notin DOMAIN data.value[1]
                \/ data.value[1].docs = <<>>
        THEN [out |-> Return(NoRecord), requests |-> 1, failed |-> ~searchReply.ok]
        ELSE
        LET book_data == data.value[1].docs[1]
            r0 == OpenLibraryBookInfo
            r1 == IF "first_publish_year" \in DOMAIN book_data
                  THEN [r0 EXCEPT !.first_publish_year = book_data.first_publish_year]
                  ELSE r0
            r2 == IF "cover_i" \in DOMAIN book_data
                  THEN [r1 EXCEPT !.cover_url = CoverUrl(book_data.cover_i)]
                  ELSE r1
        IN  IF "first_publish_year" \in DOMAIN book_data
            THEN [out |-> Return(Some([r2 EXCEPT !.first_publish_year =
                                          book_data.first_publish_year])),
                  requests |-> 1, failed |-> FALSE]
            ELSE IF "cover_i" \in DOMAIN book_data
            THEN [out |-> Return(Some([r2 EXCEPT !.cover_url =
                                          CoverUrl(book_data.cover_i)])),
                  requests |-> 1, failed |-> FALSE]
            ELSE IF SearchWantsDetails(book_data)
            THEN LET details == GetDetails(sess, detailsReply)
                 IN  IF details.raised
                     THEN [out |-> Raise("ValueError"), requests |-> 2,
                           failed |-> TRUE]
                     ELSE IF details.value = NoRecord
                     THEN [out |-> Return(Some(r2)), requests |-> 2,
                           failed |-> ~detailsReply.ok]
                     ELSE [out |-> Return(Some(ProcessDetails(details.value[1], r2))),
                           requests |-> 2, failed |-> FALSE]
            ELSE [out |-> Return(Some(r2)), requests |-> 1, failed |-> FALSE]

\* the replies of the bibliographic API drawn by the model
SearchReplies ==
    { HttpFail,
      HttpJson([docs |-> <<>>]),
      HttpJson([docs |-> <<[key |-> "/works/OL1W"]>>]),
      HttpJson([docs |-> <<[key |-> "/works/OL1W", cover_i |-> "77"]>>]),
      HttpJson([docs |-> <<[key |-> "/works/OL1W", first_publish_year |-> "1990",
                            cover_i |-> "77"]>>]) }

DetailsReplies ==
    { HttpFail,
      HttpJson([description |-> [type |-> "str", str |-> "theirs"],
                rating |-> [average |-> "4.5"]]),
      HttpJson([description |-> [type |-> "dict", dict |-> [value |-> "theirs"]]]),
      HttpJson([rating |-> [average |-> "4.5"]]),
      HttpJson([k \in {} |-> None]) }

\* the details request is answered only when it is made
DetailsRepliesTo(searchReply) ==
    IF /\ searchReply.ok /\ searchReply.json.docs # <<>>
       /\ SearchWantsDetails(searchReply.json.docs[1])
    THEN DetailsReplies ELSE {HttpFail}

\* ------------------------------------------------- relational repository
\* the merge with the year taken from the lookup whenever it has one
CreateMergeExternalYear(obj_in, open_lib_info) ==
    LET d0 == ModelDump(obj_in)
    IN  IF open_lib_info = NoRecord THEN d0
        ELSE
        LET info == open_lib_info[1]
            d1 == IF Truthy(info.cover_url)
                  THEN [d0 EXCEPT !.cover_url = info.cover_url] ELSE d0
            d2 == IF Truthy(info.description)
                  THEN [d1 EXCEPT !.description = info.description] ELSE d1
            d3 == IF info.rating # None
                  THEN [d2 EXCEPT !.rating = info.rating] ELSE d2
        IN  IF Truthy(info.first_publish_year)
            THEN [d3 EXCEPT !.year = info.first_publish_year] ELSE d3

\* the merge of BookRepository.create
CreateMerge(obj_in, open_lib_info) ==
    LET d0 == ModelDump(obj_in)
    IN  IF open_lib_info = NoRecord THEN d0
        ELSE
        LET info == open_lib_info[1]
            d1 == IF Truthy(info.cover_url)
                  THEN [d0 EXCEPT !.cover_url = info.cover_url] ELSE d0
            d2 == IF Truthy(info.description)
                  THEN [d1 EXCEPT !.description = info.description] ELSE d1
            d3 == IF info.rating # None
                  THEN [d2 EXCEPT !.rating = info.rating] ELSE d2
            d4 == IF Truthy(info.first_publish_year) /\ "year" \notin DOMAIN d3
                  THEN DictMerge(d3, [year |-> info.first_publish_year]) ELSE d3
        IN  d4

\* the merge with a lookup that found nothing wiping the fields it could
\* have filled
ExternalDataMergeWipes(obj_in, external_info) ==
    LET d0 == ModelDump(obj_in)
    IN  IF external_info = NoRecord
        THEN [d0 EXCEPT !.cover_url = None, !.description = None]
        ELSE
        LET info == external_info[1]
            d1 == IF Truthy(info.cover_url)
                  THEN [d0 EXCEPT !.cover_url = info.cover_url] ELSE d0
            d2 == IF Truthy(info.description)
                  THEN [d1 EXCEPT !.description = info.description] ELSE d1
        IN  d2

\* the merge of BookRepository.create_with_external_data
ExternalDataMerge(obj_in, external_info) ==
    LET d0 == ModelDump(obj_in)
    IN  IF external_info = NoRecord THEN d0
        ELSE
        LET info == external_info[1]
            d1 == IF Truthy(info.cover_url)
                  THEN [d0 EXCEPT !.cover_url = info.cover_url] ELSE d0
            d2 == IF Truthy(info.description)
                  THEN [d1 EXCEPT !.description = info.description] ELSE d1
        IN  d2

\* INSERT of one row: the store assigns the id from its sequence
InsertRow(rows, create_data, id) == Append(rows, DictMerge(create_data, [id |-> id]))

\* SELECT ... WHERE id = :id, first()
RelSelect(rows, id) ==
    LET idx == FirstIndex(rows, id)
    IN  IF idx = 0 THEN NoRecord ELSE Some(rows[idx])

\* UPDATE ... SET values WHERE id = :id RETURNING
RelUpdateRows(rows, id, values) ==
    [i \in DOMAIN rows |-> IF rows[i].id = id THEN DictMerge(rows[i], values) ELSE rows[i]]

\* DELETE ... WHERE id = :id RETURNING
RelDeleteRows(rows, id) == SelectSeq(rows, LAMBDA row : row.id # id)

\* ------------------------------------------------------------------- state
Backends == {"File", "RemoteBin", "Relational"}
Procs == {"w1", "w2"}

VARIABLES
    backend,    \* the backend this catalog instance runs on
    store,      \* File: the JSON array in the file; RemoteBin: the bin's record list
    workers,    \* per worker: idle, or a mutation between its read and its write
    damaged,    \* File: the file holds a cut-off text that is no JSON document
    issued,     \* the ids handed out by the creates completed so far
    raced,      \* has a mutation started while another one was in progress
    table,      \* Relational: the rows of books
    nextval,    \* Relational: the next value of the id sequence
    session,    \* the lookup client's _session: "none" or "open"
    last        \* the operation completed by the latest step

vars == <<backend, store, damaged, workers, issued, raced, table, nextval, session, last>>

Idle ==
    [pc |-> "idle", op |-> "none", id |-> 0, obj |-> <<>>,
     snap |-> <<>>, data |-> <<>>, ret |-> <<>>]

NoOp ==
    [op |-> "none", id |-> 0, obj |-> <<>>, skip |-> 0, limit |-> 0,
     pre |-> <<>>, post |-> <<>>, put |-> FALSE, ret |-> <<>>, raised |-> FALSE,
     fetch |-> FALSE, info |-> <<>>, requests |-> 0, failed |-> FALSE,
     fault |-> "none", rollback |-> FALSE, search |-> <<>>, details |-> <<>>,
     http |-> <<>>]

IdArgs == 1..MaxId
RowIdArgs == 1..(MaxRows + 1)
SkipArgs == {0, 1, 3}
LimitArgs == {1, 2}

Init ==
    /\ backend \in Backends
    /\ store = <<>>
    /\ damaged = FALSE
    /\ workers = [p \in Procs |-> Idle]
    /\ issued = {}
    /\ raced = FALSE
    /\ table = <<>>
    /\ nextval = 1
    /\ session = "none"
    /\ last = NoOp

IsDoc == backend \in {"File", "RemoteBin"}

\* FileCRUDBase._read_data / JsonBinCRUDBase._make_request("GET")
ReadData == store
GetResponse == [record |-> store]

\* what the store does to a read (_read_data, GET) and to a write
\* (_write_data, PUT). A write is refused when it fails before the store has
\* changed: open() fails, the PUT is answered with an error status. It is
\* broken when it fails after that: json.dump fails behind the truncating
\* open(path, 'w') and leaves a cut-off text; the PUT has replaced the
\* document but its reply cannot be read
ReadFaults == {"none", "read"}
WriteOutcomes == {"ok", "refused", "broken"}

\* _read_data / GET raises: the store fails, or json.load meets a cut-off text
ReadRaises(fault) == fault = "read" \/ damaged

\* is some other worker between its read and its write
Racing(p) == \E q \in Procs \ {p} : workers[q].pc = "write"

\* the model follows one disturbance at a time: the store fails only while no
\* two mutations overlap
FaultFree(p) == raced \/ Racing(p)

\* the workers are interchangeable: of two idle ones the first takes the call
Free(p) ==
    /\ workers[p].pc = "idle"
    /\ p = "w2" => workers["w1"].pc # "idle"

\* a mutation starts; the model follows one overlap of two mutations per
\* behaviour, so it starts behind a pending one only if none has done so yet
Start(p) ==
    /\ Free(p)
    /\ Racing(p) => ~raced
    /\ raced' = (raced \/ Racing(p))

\* get and list are one step that changes nothing, so one that runs while a
\* mutation is between its read and its write sees what it would have seen
\* just before that mutation's read: only that order is generated
StartRead(p) ==
    /\ Free(p)
    /\ ~Racing(p)
    /\ raced' = raced

\* the requests a RemoteBin operation has sent through _make_request, in
\* order: the GET of its read step and, if it came to write, the PUT
Http(wrote) ==
    IF backend # "RemoteBin" THEN <<>>
    ELSE IF wrote THEN <<"GET", "PUT">> ELSE <<"GET">>

\* a read-only operation, or a mutation that found nothing to change,
\* completes in its read step
Complete(p, op, id, obj, skip, limit, out) ==
    /\ last' = [NoOp EXCEPT !.op = op, !.id = id, !.obj = obj,
                            !.skip = skip, !.limit = limit, !.pre = store,
                            !.post = store, !.put = FALSE, !.ret = out.ret,
                            !.http = Http(FALSE)]
    /\ UNCHANGED <<backend, store, damaged, workers, issued, table, nextval, session>>

\* an operation whose read raised, with a handler that logs the error and
\* returns None
FailReturnsNone(p, op) ==
    /\ last' = [NoOp EXCEPT !.op = op, !.pre = store, !.post = store,
                            !.ret = NoRecord, !.raised = FALSE, !.fault = "read",
                            !.http = Http(FALSE)]
    /\ UNCHANGED <<backend, store, damaged, workers, issued, table, nextval, session>>

\* an operation whose read raised: every method logs and re-raises
Fail(p, op) ==
    /\ last' = [NoOp EXCEPT !.op = op, !.pre = store, !.post = store,
                            !.ret = NoRecord, !.raised = TRUE, !.fault = "read",
                            !.http = Http(FALSE)]
    /\ UNCHANGED <<backend, store, damaged, workers, issued, table, nextval, session>>

\* a mutation that goes on to write keeps its result until the write
Suspend(p, op, id, obj, out) ==
    /\ workers' = [workers EXCEPT ![p] =
                     [pc |-> "write", op |-> op, id |-> id, obj |-> obj,
                      snap |-> store, data |-> out.data, ret |-> out.ret]]
    /\ last' = NoOp
    /\ UNCHANGED <<backend, store, damaged, issued, table, nextval, session>>

Get(p, id, fault) ==
    /\ IsDoc /\ StartRead(p)
    /\ FaultFree(p) => fault = "none"
    /\ IF ReadRaises(fault) THEN Fail(p, "get")
       ELSE Complete(p, "get", id, <<>>, 0, 0,
                     IF backend = "File" THEN FileGet(ReadData, id)
                                         ELSE JsonBinGet(GetResponse, id))

\* mutant: a list that writes the page it returned back as the record set
GetMultiRewrites(p, skip, limit, fault) ==
    /\ IsDoc /\ StartRead(p)
    /\ FaultFree(p) => fault = "none"
    /\ IF ReadRaises(fault) THEN Fail(p, "get_multi")
       ELSE LET out == IF backend = "File" THEN FileGetMulti(ReadData, skip, limit)
                                          ELSE JsonBinGetMulti(GetResponse, skip, limit)
            IN  /\ last' = [NoOp EXCEPT !.op = "get_multi", !.skip = skip,
                                        !.limit = limit, !.pre = store,
                                        !.post = out.ret, !.put = TRUE,
                                        !.ret = out.ret, !.http = Http(TRUE)]
                /\ store' = out.ret
                /\ UNCHANGED <<backend, damaged, workers, issued, table, nextval, session>>

GetMulti(p, skip, limit, fault) ==
    /\ IsDoc /\ StartRead(p)
    /\ FaultFree(p) => fault = "none"
    /\ IF ReadRaises(fault) THEN Fail(p, "get_multi")
       ELSE Complete(p, "get_multi", 0, <<>>, skip, limit,
                     IF backend = "File" THEN FileGetMulti(ReadData, skip, limit)
                                         ELSE JsonBinGetMulti(GetResponse, skip, limit))

CreateRead(p, obj_in, fault) ==
    /\ IsDoc /\ Start(p)
    /\ FaultFree(p) => fault = "none"
    /\ LET out == IF backend = "File" THEN FileCreate(ReadData, obj_in)
                                      ELSE JsonBinCreate(GetResponse, obj_in)
       IN  IF ReadRaises(fault) THEN Fail(p, "create")
           ELSE /\ out.ret[1].id <= MaxId
                /\ Suspend(p, "create", 0, obj_in, out)

UpdateRead(p, id, obj_in, fault) ==
    /\ IsDoc /\ Start(p)
    /\ FaultFree(p) => fault = "none"
    /\ LET out == IF backend = "File" THEN FileUpdate(ReadData, id, obj_in)
                                      ELSE JsonBinUpdate(GetResponse, id, obj_in)
       IN  IF ReadRaises(fault) THEN Fail(p, "update")
           ELSE IF out.put THEN Suspend(p, "update", id, obj_in, out)
                           ELSE Complete(p, "update", id, obj_in, 0, 0, out)

\* a delete that PUTs the document back also when it found nothing to remove
DeleteReadAlwaysPut(p, id, fault) ==
    /\ IsDoc /\ Start(p)
    /\ FaultFree(p) => fault = "none"
    /\ LET out == IF backend = "File" THEN FileDelete(ReadData, id)
                                      ELSE JsonBinDelete(GetResponse, id)
       IN  IF ReadRaises(fault) THEN Fail(p, "delete")
           ELSE Suspend(p, "delete", id, <<>>, out)

DeleteRead(p, id, fault) ==
    /\ IsDoc /\ Start(p)
    /\ FaultFree(p) => fault = "none"
    /\ LET out == IF backend = "File" THEN FileDelete(ReadData, id)
                                      ELSE JsonBinDelete(GetResponse, id)
       IN  IF ReadRaises(fault) THEN Fail(p, "delete")
           ELSE IF out.put THEN Suspend(p, "delete", id, <<>>, out)
                           ELSE Complete(p, "delete", id, <<>>, 0, 0, out)

\* what a broken write leaves: File, nothing that can be read (the record
\* set is gone with the text); RemoteBin, the document that was sent
BrokenWrite(data) == IF backend = "File" THEN <<>> ELSE data

\* a write made conditional on the document still being the one that was
\* read (a version header): it is refused when another write came between
WriteConditional(p, outcome) ==
    /\ IsDoc /\ workers[p].pc = "write"
    /\ FaultFree(p) => outcome = "ok"
    /\ LET fresh == workers[p].snap = store
       IN  /\ store' = IF fresh /\ outcome = "ok" THEN workers[p].data ELSE store
           /\ damaged' = damaged
           /\ issued' = IF workers[p].op = "create" /\ store' = workers[p].data
                        THEN issued \cup {workers[p].ret[1].id} ELSE issued
           /\ last' = IF fresh /\ outcome = "ok"
                      THEN [NoOp EXCEPT !.op = workers[p].op, !.id = workers[p].id,
                                        !.obj = workers[p].obj, !.pre = workers[p].snap,
                                        !.post = workers[p].data, !.put = TRUE,
                                        !.ret = workers[p].ret, !.http = Http(TRUE)]
                      ELSE [NoOp EXCEPT !.op = workers[p].op, !.pre = workers[p].snap,
                                        !.post = store, !.ret = NoRecord,
                                        !.raised = TRUE, !.fault = "write",
                                        !.http = Http(TRUE)]
    /\ workers' = [workers EXCEPT ![p] = Idle]
    /\ UNCHANGED <<backend, raced, table, nextval, session>>

\* FileCRUDBase._write_data / JsonBinCRUDBase._make_request("PUT", records):
\* the whole document is replaced, then the operation returns; a write that
\* fails is logged and re-raised
Write(p, outcome) ==
    /\ IsDoc /\ workers[p].pc = "write"
    /\ FaultFree(p) => outcome = "ok"
    /\ store' = IF outcome = "ok" THEN workers[p].data
                ELSE IF outcome = "refused" THEN store
                ELSE BrokenWrite(workers[p].data)
    /\ damaged' = IF outcome = "ok" THEN FALSE
                  ELSE IF outcome = "refused" THEN damaged
                  ELSE backend = "File"
    /\ issued' = IF workers[p].op = "create" /\ store' = workers[p].data
                 THEN issued \cup {workers[p].ret[1].id} ELSE issued
    /\ last' = IF outcome = "ok"
               THEN [NoOp EXCEPT !.op = workers[p].op, !.id = workers[p].id,
                                 !.obj = workers[p].obj, !.pre = workers[p].snap,
                                 !.post = workers[p].data, !.put = TRUE,
                                 !.ret = workers[p].ret, !.http = Http(TRUE)]
               ELSE [NoOp EXCEPT !.op = workers[p].op, !.pre = workers[p].snap,
                                 !.post = store', !.put = (outcome = "broken"),
                                 !.ret = NoRecord, !.raised = TRUE,
                                 !.fault = "write", !.http = Http(TRUE)]
    /\ workers' = [workers EXCEPT ![p] = Idle]
    /\ UNCHANGED <<backend, raced, table, nextval, session>>

\* ---- lookup client life cycle
ClientEnter ==
    /\ backend = "Relational" /\ session = "none"
    /\ session' = "open"
    /\ last' = NoOp
    /\ UNCHANGED <<backend, store, damaged, workers, issued, raced, table, nextval>>

ClientExit ==
    /\ backend = "Relational" /\ session = "open"
    /\ session' = "none"
    /\ last' = NoOp
    /\ UNCHANGED <<backend, store, damaged, workers, issued, raced, table, nextval>>

\* ---- Relational repository
\* what the store does to a call: "none" lets it through; "commit" is a
\* SQLAlchemyError of db.commit, nothing being committed; "refresh" is a
\* SQLAlchemyError of db.refresh, which runs after the commit; "connect" is
\* an error of db.execute that is no SQLAlchemyError (the connection cannot be
\* set up)
CreateFaults == {"none", "commit", "refresh"}
WriteFaults == {"none", "connect", "commit"}

\* except SQLAlchemyError
IsSQLAlchemyError(fault) == fault \in {"commit", "refresh"}

\* the handlers of update and delete: except SQLAlchemyError rolls back and
\* re-raises, any other error leaves the method as it is
WriteRollsBack(fault) == IsSQLAlchemyError(fault)

RelFinish(op, id, obj_in, fetch, found, rows, ret, fault, raised, rollback) ==
    /\ table' = rows
    /\ last' = [NoOp EXCEPT !.op = op, !.id = IF raised THEN 0 ELSE id,
                            !.obj = IF raised /\ rows = table THEN <<>> ELSE obj_in,
                            !.fetch = fetch, !.info = found.out,
                            !.requests = found.requests,
                            !.failed = found.failed, !.pre = table,
                            !.post = rows, !.put = (rows # table), !.ret = ret,
                            !.fault = fault, !.raised = raised,
                            !.rollback = rollback]
    /\ UNCHANGED <<backend, store, damaged, workers, issued, raced, session>>

NoSearch == [out |-> Return(NoRecord), requests |-> 0, failed |-> FALSE]

\* db.add, db.commit, db.refresh of a new row, with the handlers around them:
\* except SQLAlchemyError and except Exception both roll back, then re-raise
RelInsert(op, obj_in, fetch, found, create_data, fault) ==
    LET rows == InsertRow(table, create_data, nextval)
    IN  IF found.out.raised
        THEN /\ RelFinish(op, 0, obj_in, fetch, found, table, NoRecord, "none",
                          TRUE, TRUE)
             /\ nextval' = nextval
        ELSE IF fault = "commit"
        THEN /\ RelFinish(op, 0, obj_in, fetch, found, table, NoRecord, fault,
                          TRUE, TRUE)
             /\ nextval' = nextval
        ELSE IF fault = "refresh"
        THEN /\ RelFinish(op, 0, obj_in, fetch, found, rows, NoRecord, fault,
                          TRUE, TRUE)
             /\ nextval' = nextval + 1
        ELSE /\ RelFinish(op, 0, obj_in, fetch, found, rows, Some(rows[Len(rows)]),
                          fault, FALSE, FALSE)
             /\ nextval' = nextval + 1

RelCreate(obj_in, searchReply, detailsReply, fault) ==
    /\ backend = "Relational" /\ nextval <= MaxRows
    /\ LET found == Search(session, searchReply, detailsReply)
       IN  RelInsert("rel_create", obj_in, TRUE, found,
                     IF found.out.raised THEN ModelDump(obj_in)
                     ELSE CreateMerge(obj_in, found.out.value), fault)

\* create_with_external_data looking the book up whatever the flag says
RelCreateWithExternalDataAlwaysFetch(obj_in, fetch_external, searchReply, detailsReply, fault) ==
    /\ backend = "Relational" /\ nextval <= MaxRows
    /\ LET found == Search(session, searchReply, detailsReply)
       IN  RelInsert("create_with_external_data", obj_in, fetch_external, found,
                     IF found.out.raised THEN ModelDump(obj_in)
                     ELSE ExternalDataMerge(obj_in, found.out.value), fault)

RelCreateWithExternalData(obj_in, fetch_external, searchReply, detailsReply, fault) ==
    /\ backend = "Relational" /\ nextval <= MaxRows
    /\ LET found == IF fetch_external THEN Search(session, searchReply, detailsReply)
                                      ELSE NoSearch
       IN  RelInsert("create_with_external_data", obj_in, fetch_external, found,
                     IF found.out.raised THEN ModelDump(obj_in)
                     ELSE ExternalDataMerge(obj_in, found.out.value), fault)

\* BookRepository.fetch_external_book_info: the lookup on its own; the step
\* keeps the replies the bibliographic API gave
FetchExternalBookInfo(searchReply, detailsReply) ==
    /\ backend = "Relational"
    /\ LET found == Search(session, searchReply, detailsReply)
       IN  last' = [NoOp EXCEPT !.op = "fetch_external_book_info", !.fetch = TRUE,
                                !.info = found.out, !.requests = found.requests,
                                !.failed = found.failed, !.pre = table,
                                !.post = table, !.raised = found.out.raised,
                                !.search = IF found.requests >= 1
                                           THEN searchReply ELSE <<>>,
                                !.details = IF found.requests = 2
                                            THEN detailsReply ELSE <<>>]
    /\ UNCHANGED <<backend, store, damaged, workers, issued, raced, table, nextval, session>>

\* what the store does to a SELECT: "select" is a SQLAlchemyError of
\* db.execute; get and get_multi log it and re-raise
SelectFaults == {"none", "select"}

RelGet(id, fault) ==
    /\ backend = "Relational"
    /\ IF fault # "none"
       THEN RelFinish("rel_get", id, <<>>, FALSE, NoSearch, table, NoRecord,
                      fault, TRUE, FALSE)
       ELSE RelFinish("rel_get", id, <<>>, FALSE, NoSearch, table,
                      RelSelect(table, id), fault, FALSE, FALSE)
    /\ UNCHANGED nextval

\* SELECT ... OFFSET :skip LIMIT :limit, all()
RelGetMulti(skip, limit, fault) ==
    /\ backend = "Relational"
    /\ last' = IF fault # "none"
               THEN [NoOp EXCEPT !.op = "rel_get_multi", !.pre = table,
                                 !.post = table, !.ret = NoRecord,
                                 !.raised = TRUE, !.fault = fault]
               ELSE [NoOp EXCEPT !.op = "rel_get_multi", !.skip = skip,
                                 !.limit = limit, !.pre = table, !.post = table,
                                 !.ret = Slice(table, skip, limit)]
    /\ UNCHANGED <<backend, store, damaged, workers, issued, raced, table, nextval, session>>

\* an UPDATE without any value to set is left to the store: it is either
\* rejected or changes nothing
\* the fields a record must carry: required by BookBase, and columns of the
\* books table that are not nullable
RequiredFields == {"title", "author", "year", "genre", "pages"}

\* the payload sets a required field to null
NullsRequired(obj_in) == \E f \in DOMAIN obj_in \cap RequiredFields : obj_in[f] = None

\* the commit of an update that put null into a NOT NULL column of a row
\* that exists fails with IntegrityError, an SQLAlchemyError
RelUpdateFault(id, obj_in, fault) ==
    IF fault = "none" /\ RelSelect(table, id) # NoRecord /\ NullsRequired(obj_in)
    THEN "commit" ELSE fault

RelUpdate(id, obj_in, fault) ==
    /\ backend = "Relational"
    /\ LET f == RelUpdateFault(id, obj_in, fault)
       IN  IF f # "none"
           THEN RelFinish("rel_update", id, obj_in, FALSE, NoSearch, table, NoRecord,
                          f, TRUE, WriteRollsBack(f))
           ELSE LET rows == RelUpdateRows(table, id, obj_in)
                IN  RelFinish("rel_update", id, obj_in, FALSE, NoSearch, rows,
                              RelSelect(rows, id), f, FALSE, FALSE)
    /\ UNCHANGED nextval

RelDelete(id, fault) ==
    /\ backend = "Relational"
    /\ IF fault # "none"
       THEN RelFinish("rel_delete", id, <<>>, FALSE, NoSearch, table, NoRecord,
                      fault, TRUE, WriteRollsBack(fault))
       ELSE RelFinish("rel_delete", id, <<>>, FALSE, NoSearch, RelDeleteRows(table, id),
                      RelSelect(table, id), fault, FALSE, FALSE)
    /\ UNCHANGED nextval

Next ==
    \/ \E p \in Procs, id \in IdArgs, f \in ReadFaults : Get(p, id, f)
    \/ \E p \in Procs, skip \in SkipArgs, limit \in LimitArgs, f \in ReadFaults :
          GetMulti(p, skip, limit, f)
    \/ \E p \in Procs, obj_in \in CreatePayloads, f \in ReadFaults :
          CreateRead(p, obj_in, f)
    \/ \E p \in Procs, id \in IdArgs, obj_in \in UpdatePayloads, f \in ReadFaults :
          UpdateRead(p, id, obj_in, f)
    \/ \E p \in Procs, id \in IdArgs, f \in ReadFaults : DeleteRead(p, id, f)
    \/ \E p \in Procs, o \in WriteOutcomes : Write(p, o)
    \/ ClientEnter
    \/ ClientExit
    \/ \E obj_in \in CreatePayloads, s \in SearchReplies, c \in CreateFaults :
          \E d \in DetailsRepliesTo(s) : RelCreate(obj_in, s, d, c)
    \/ \E obj_in \in CreatePayloads, f \in BOOLEAN, s \in SearchReplies,
          c \in CreateFaults :
             \E d \in DetailsRepliesTo(s) : RelCreateWithExternalData(obj_in, f, s, d, c)
    \/ \E s \in SearchReplies :
          \E d \in DetailsRepliesTo(s) : FetchExternalBookInfo(s, d)
    \/ \E id \in RowIdArgs, c \in SelectFaults : RelGet(id, c)
    \/ \E skip \in SkipArgs, limit \in LimitArgs, c \in SelectFaults :
          RelGetMulti(skip, limit, c)
    \/ \E id \in RowIdArgs, obj_in \in UpdatePayloads, c \in WriteFaults : RelUpdate(id, obj_in, c)
    \/ \E id \in RowIdArgs, c \in WriteFaults : RelDelete(id, c)

Spec == Init /\ [][Next]_vars

\* one caller: an operation starts only when no other one is in progress
SeqNext ==
    \/ \E p \in Procs, id \in IdArgs, f \in ReadFaults : Get(p, id, f) /\ ~raced'
    \/ \E p \in Procs, skip \in SkipArgs, limit \in LimitArgs, f \in ReadFaults :
          GetMulti(p, skip, limit, f) /\ ~raced'
    \/ \E p \in Procs, obj_in \in CreatePayloads, f \in ReadFaults :
          CreateRead(p, obj_in, f) /\ ~raced'
    \/ \E p \in Procs, id \in IdArgs, obj_in \in UpdatePayloads, f \in ReadFaults :
          UpdateRead(p, id, obj_in, f) /\ ~raced'
    \/ \E p \in Procs, id \in IdArgs, f \in ReadFaults : DeleteRead(p, id, f) /\ ~raced'
    \/ \E p \in Procs, o \in WriteOutcomes : Write(p, o) /\ ~raced'
    \/ ClientEnter
    \/ ClientExit
    \/ \E obj_in \in CreatePayloads, s \in SearchReplies, c \in CreateFaults :
          \E d \in DetailsRepliesTo(s) : RelCreate(obj_in, s, d, c)
    \/ \E obj_in \in CreatePayloads, f \in BOOLEAN, s \in SearchReplies,
          c \in CreateFaults :
             \E d \in DetailsRepliesTo(s) : RelCreateWithExternalData(obj_in, f, s, d, c)
    \/ \E s \in SearchReplies :
          \E d \in DetailsRepliesTo(s) : FetchExternalBookInfo(s, d)
    \/ \E id \in RowIdArgs, c \in SelectFaults : RelGet(id, c)
    \/ \E skip \in SkipArgs, limit \in LimitArgs, c \in SelectFaults :
          RelGetMulti(skip, limit, c)
    \/ \E id \in RowIdArgs, obj_in \in UpdatePayloads, c \in WriteFaults : RelUpdate(id, obj_in, c)
    \/ \E id \in RowIdArgs, c \in WriteFaults : RelDelete(id, c)

SeqSpec == Init /\ [][SeqNext]_vars

\* ---- one process serving its requests on one event loop
\* a coroutine gives way to another only at an await. The RemoteBin methods
\* await the GET and the PUT; the File methods are async def without a single
\* await, _read_data and _write_data being plain calls
AwaitsAlways(b) == TRUE

Awaits(b) == b = "RemoteBin"

\* a call gets to run behind a mutation that has read and not yet written
\* only if that mutation is suspended at an await
LoopStep == raced' => Awaits(backend)

LoopInit == Init /\ IsDoc

LoopNext ==
    \/ \E p \in Procs, id \in IdArgs, f \in ReadFaults : Get(p, id, f) /\ LoopStep
    \/ \E p \in Procs, skip \in SkipArgs, limit \in LimitArgs, f \in ReadFaults :
          GetMulti(p, skip, limit, f) /\ LoopStep
    \/ \E p \in Procs, obj_in \in CreatePayloads, f \in ReadFaults :
          CreateRead(p, obj_in, f) /\ LoopStep
    \/ \E p \in Procs, id \in IdArgs, obj_in \in UpdatePayloads, f \in ReadFaults :
          UpdateRead(p, id, obj_in, f) /\ LoopStep
    \/ \E p \in Procs, id \in IdArgs, f \in ReadFaults : DeleteRead(p, id, f) /\ LoopStep
    \/ \E p \in Procs, o \in WriteOutcomes : Write(p, o) /\ LoopStep

LoopSpec == LoopInit /\ [][LoopNext]_vars

\* ============================================================== properties

\* get(id) on the persisted document, as the backend in use computes it
GetNow(id) ==
    IF backend = "File" THEN FileGet(ReadData, id).ret
                        ELSE JsonBinGet(GetResponse, id).ret

\* a create, update or delete that wrote has just completed
JustWrote(op) == IsDoc /\ last.op = op /\ last.put /\ ~last.raised

\* the records of data other than the one called id, in order
Others(data, id) == SelectSeq(data, LAMBDA r : r.id # id)

\* the step completes a create of a document backend
CreateCompletes ==
    \E p \in Procs : /\ workers[p].pc = "write" /\ workers[p].op = "create"
                     /\ workers'[p].pc = "idle" /\ ~last'.raised

\* C1: on a File or RemoteBin backend the id a create assigns was never
\* assigned by an earlier create, also after the record carrying it was deleted
C1_IdNeverReused ==
    [][CreateCompletes => last'.ret[1].id \notin issued]_vars

\* C2: the persisted record set of a File or RemoteBin backend never holds
\* two records with the same id, whether the operations run one after another
\* or interleave between their read and their write
C2_UniqueIds ==
    IsDoc => \A i, j \in DOMAIN store : i # j => store[i].id # store[j].id

\* a write has landed while another mutation still holds the older snapshot,
\* and the document holds two records
C2_Witness ==
    /\ IsDoc /\ raced /\ Len(store) >= 2
    /\ \E p \in Procs : workers[p].pc = "write" /\ workers[p].snap # store

\* C3: get(id) right after create(fields) returns the record create returned:
\* the same id and every field as written
C3_CreateThenGet ==
    JustWrote("create") =>
        /\ GetNow(last.ret[1].id) = last.ret
        /\ \A f \in BookFields : GetNow(last.ret[1].id)[1][f] = last.obj[f]

\* a second record was created with the caller's optional fields set
C3_Witness ==
    /\ JustWrote("create") /\ Len(store) = 2
    /\ last.obj.cover_url = "mine" /\ last.ret[1].id = 2

\* do the ids of data read 1, 2, ..., Len(data) in order
Consecutive(data) == \A i \in DOMAIN data : data[i].id = i

\* C4: a create assigns 1 on an empty record set and otherwise the largest
\* existing id plus one; creates in a row from the empty set give 1, 2, ..., N
C4_IdAssignment ==
    JustWrote("create") =>
        /\ last.pre = <<>> => last.ret[1].id = 1
        /\ last.pre # <<>> =>
              /\ \A i \in DOMAIN last.pre : last.pre[i].id < last.ret[1].id
              /\ \E i \in DOMAIN last.pre : last.pre[i].id + 1 = last.ret[1].id
        /\ Consecutive(last.pre) =>
              /\ last.ret[1].id = Len(last.pre) + 1
              /\ Consecutive(store) /\ Len(store) = Len(last.pre) + 1

\* the N-th create in a row, N = MaxId, has completed
C4_Witness ==
    /\ JustWrote("create") /\ Consecutive(store)
    /\ Len(store) = MaxId /\ last.ret[1].id = MaxId

\* the effect the update of record id by payload obj has to have on the
\* record set before, judged on the record set after
UpdateReflected(before, after, id, obj, got) ==
    LET idx == FirstIndex(before, id)
    IN  /\ got # NoRecord
        /\ got[1].id = id
        /\ \A f \in DOMAIN obj : got[1][f] = obj[f]
        /\ \A f \in BookFields \ DOMAIN obj : got[1][f] = before[idx][f]
        /\ Len(after) = Len(before)
        /\ \A i \in DOMAIN before : i # idx => after[i] = before[i]

\* C5: after update(id, partial) of an existing id, get(id) has the payload's
\* value in every field the payload sets and the old value in every other
\* field, the id is unchanged and so is every other record
C5_UpdateThenGet ==
    /\ JustWrote("update") =>
          UpdateReflected(last.pre, store, last.id, last.obj, GetNow(last.id))
    /\ (backend = "Relational" /\ last.op = "rel_update" /\ ~last.raised
           /\ last.ret # NoRecord) =>
          UpdateReflected(last.pre, table, last.id, last.obj, RelSelect(table, last.id))

\* the second of two records was updated with a payload that sets two fields
C5_Witness ==
    /\ JustWrote("update") /\ Len(store) = 2 /\ last.id = 2
    /\ DOMAIN last.obj = {"title", "rating"}

\* C6: update of an id that is not in the record set returns not-found,
\* raises nothing and writes nothing: the record set stays as it was
C6_UpdateAbsent ==
    /\ (/\ IsDoc /\ last.op = "update" /\ last.fault = "none"
        /\ FirstIndex(last.pre, last.id) = 0) =>
          /\ last.ret = NoRecord /\ ~last.raised /\ ~last.put
          /\ store = last.pre
    /\ \A p \in Procs :
          (workers[p].pc = "write" /\ workers[p].op = "update") =>
              FirstIndex(workers[p].snap, workers[p].id) # 0

\* an update of an absent id has completed on a record set that is not empty
C6_Witness ==
    /\ IsDoc /\ last.op = "update" /\ Len(last.pre) = 1
    /\ FirstIndex(last.pre, last.id) = 0 /\ DOMAIN last.obj # {}

\* C7: get(id) right after delete(id) of an existing id returns not-found
C7_DeleteThenGet ==
    /\ JustWrote("delete") => GetNow(last.id) = NoRecord
    /\ (backend = "Relational" /\ last.op = "rel_delete" /\ ~last.raised
           /\ last.ret # NoRecord) => RelSelect(table, last.id) = NoRecord

\* the first of two records was deleted
C7_Witness ==
    /\ JustWrote("delete") /\ Len(last.pre) = 2 /\ last.pre[1].id = last.id

C9_ListWindow ==
    (/\ IsDoc /\ last.op = "get_multi" /\ last.fault = "none"
     /\ last.skip >= 0 /\ last.limit >= 1) =>
        LET rest == IF Len(store) > last.skip THEN Len(store) - last.skip ELSE 0
            n == IF rest < last.limit THEN rest ELSE last.limit
        IN  /\ Len(last.ret) = n
            /\ \A i \in 1..n : last.ret[i] = store[last.skip + i]

\* one record was skipped and the window was cut at the end of the sequence
C9_Witness ==
    /\ IsDoc /\ last.op = "get_multi" /\ Len(store) = 2
    /\ last.skip = 1 /\ last.limit = 2 /\ last.ret = <<store[2]>>

\* C10: with fetchExternal = true each of cover_url, description and rating of
\* the created record is the external value when the lookup result carries
\* one, and the caller's value otherwise
C10_ExternalWins ==
    (/\ last.op = "create_with_external_data" /\ last.fetch /\ ~last.raised
     /\ last.info.value # NoRecord) =>
        \A f \in {"cover_url", "description", "rating"} :
            last.ret[1][f] = IF last.info.value[1][f] # None
                             THEN last.info.value[1][f]
                             ELSE last.obj[f]

\* an enriched creation has completed with a record: BookRepository.create,
\* or create_with_external_data with fetch_external = True
EnrichedCreated ==
    /\ last.op \in {"rel_create", "create_with_external_data"}
    /\ last.fetch /\ ~last.raised

\* C11: the record of an enriched creation has the caller's year whatever
\* first_publish_year the lookup result carries; its cover_url is the lookup's
\* when the lookup has one (caller year 2000, cover "mine" and lookup 1990,
\* cover "theirs" give year 2000 and the lookup's cover)
C11_CallerYearKept ==
    (EnrichedCreated /\ last.obj.year # None) =>
        /\ last.ret[1].year = last.obj.year
        /\ (last.info.value # NoRecord /\ Truthy(last.info.value[1].cover_url)) =>
               last.ret[1].cover_url = last.info.value[1].cover_url

\* caller year 2000 and cover "mine" met a lookup result with
\* first_publish_year 1990 and a cover of its own
C11_Witness ==
    /\ EnrichedCreated /\ last.op = "rel_create"
    /\ last.obj.year = "2000" /\ last.obj.cover_url = "mine"
    /\ last.info.value # NoRecord
    /\ last.info.value[1].first_publish_year = "1990"
    /\ last.info.value[1].cover_url = CoverUrl("77")
    /\ last.ret[1].year = "2000" /\ last.ret[1].cover_url = CoverUrl("77")

\* C12: when the lookup client fails during an enriched creation (it has no
\* session, or a request it makes does not deliver) the creation ends in an
\* error, returns no record and leaves the table as it was
C12_LookupFailureAborts ==
    (/\ last.op \in {"rel_create", "create_with_external_data"}
     /\ last.fetch /\ last.failed) =>
        /\ last.raised /\ last.ret = NoRecord
        /\ table = last.pre

\* the search request of the latest operation was answered with zero results
ZeroResults == last.requests = 1 /\ ~last.failed /\ last.info = Return(NoRecord)

\* C13: when the lookup finds nothing, create_with_external_data with
\* fetch_external = True raises nothing (the store accepting the row) and
\* creates a record whose fields other than id are those that
\* fetch_external = False creates from the same payload
C13_NotFoundAsUnenriched ==
    (/\ last.op = "create_with_external_data" /\ last.fetch
     /\ ZeroResults /\ last.fault = "none") =>
        /\ ~last.raised /\ last.ret # NoRecord
        /\ \A f \in BookFields : last.ret[1][f] = ModelDump(last.obj)[f]
        /\ table = Append(last.pre, last.ret[1])

\* a payload with a cover and a description of its own was created after a
\* search with zero results
C13_Witness ==
    /\ last.op = "create_with_external_data" /\ last.fetch /\ ZeroResults
    /\ ~last.raised /\ last.obj.cover_url = "mine"
    /\ last.ret[1].cover_url = "mine" /\ last.ret[1].description = "mine"

\* C14: create_with_external_data with fetch_external = False never calls the
\* lookup client, and the row it persists has exactly the caller's fields
C14_NoFetchNoLookup ==
    (last.op = "create_with_external_data" /\ ~last.fetch) =>
        /\ last.requests = 0 /\ ~last.failed /\ last.info = Return(NoRecord)
        /\ last.fault = "none" => (~last.raised /\ last.ret # NoRecord)
        /\ last.put =>
              /\ table = Append(last.pre, table[Len(table)])
              /\ \A f \in BookFields : table[Len(table)][f] = last.obj[f]
              /\ ~last.raised => last.ret = Some(table[Len(table)])

\* with the lookup client entered, a payload with a cover of its own was
\* created without fetching
C14_Witness ==
    /\ last.op = "create_with_external_data" /\ ~last.fetch /\ session = "open"
    /\ ~last.raised /\ last.obj.cover_url = "mine" /\ last.requests = 0
    /\ last.ret[1].cover_url = "mine" /\ table = <<last.ret[1]>>

\* C15: the plain create of every backend persists the caller's fields and
\* the assigned id: the record read back has the caller's value in every
\* field other than id, none of them replaced by a lookup's data
C15_CreatePersistsCallerFields ==
    /\ JustWrote("create") =>
          /\ GetNow(last.ret[1].id) # NoRecord
          /\ \A f \in BookFields : GetNow(last.ret[1].id)[1][f] = last.obj[f]
    /\ (backend = "Relational" /\ last.op = "rel_create" /\ ~last.raised) =>
          /\ RelSelect(table, last.ret[1].id) # NoRecord
          /\ \A f \in BookFields :
                RelSelect(table, last.ret[1].id)[1][f] = last.obj[f]

\* the lookup has completed on an entered client
LookedUp == last.op = "fetch_external_book_info" /\ last.requests >= 1

\* a request the lookup made did not deliver: network error, bad status or a
\* body that does not parse
RequestFailed == ~last.search.ok \/ (last.requests = 2 /\ ~last.details.ok)

\* C16: a failure of the search request or of the details request makes the
\* lookup end in an error, never in the not-found result and never in a
\* record
C16_FailureIsLookupFailed ==
    (LookedUp /\ RequestFailed) => last.raised

\* the search request was answered with a first result that has a work key
FirstResultHasKey ==
    /\ last.search.ok /\ "docs" \in DOMAIN last.search.json
    /\ last.search.json.docs # <<>>
    /\ "key" \in DOMAIN last.search.json.docs[1]

\* C17: whenever the first search result carries a work key the lookup makes
\* the second request, for the details, whatever other summary fields the
\* result has (first_publish_year, cover_i)
C17_KeyMeansDetailsRequest ==
    (LookedUp /\ FirstResultHasKey) => last.requests = 2

\* the description and the ratings average the details document carries
DetailsDescription(details) ==
    IF "description" \notin DOMAIN details THEN None
    ELSE IF details.description.type = "str" THEN details.description.str
    ELSE details.description.dict.value

DetailsRating(details) ==
    IF "rating" \in DOMAIN details /\ "average" \in DOMAIN details.rating
    THEN details.rating.average ELSE None

\* C18: the record the lookup returns after a details request that delivered
\* has the description the details carry (plain or structured) and the
\* ratings average they carry, both when both are there; each is absent only
\* when the details do not carry it
C18_DescriptionAndRating ==
    (/\ LookedUp /\ last.requests = 2 /\ last.details.ok
     /\ ~last.raised /\ last.info.value # NoRecord) =>
        /\ last.info.value[1].description = DetailsDescription(last.details.json)
        /\ last.info.value[1].rating = DetailsRating(last.details.json)

\* the step ends an update of a File or RemoteBin backend in a store failure
UpdateFails == IsDoc /\ last'.op = "update" /\ last'.raised

\* C19: an update of a File or RemoteBin backend that ends in a store failure,
\* of its read or of its write, leaves the persisted record set as it was
\* before the update started, and no cut-off document behind
C19_FailedUpdateLeavesStore ==
    [][UpdateFails => (store' = last'.pre /\ store' = store /\ damaged' = damaged)]_vars

\* C20: a create, update or delete of the Relational backend that ends in an
\* error has rolled the session back before the error left the method, and
\* has left no committed change: the table is as it was before the call
C20_ErrorRollsBack ==
    (/\ backend = "Relational" /\ last.raised
     /\ last.op \in {"rel_create", "rel_update", "rel_delete"}) =>
        /\ last.rollback
        /\ table = last.pre

\* C21: a get, list, create, update or delete of a File or RemoteBin backend
\* whose read step or write step failed ends by raising to its caller: it
\* returns no record, no list and no not-found
C21_NoSwallowedFailure ==
    (IsDoc /\ last.fault # "none") =>
        /\ last.raised
        /\ last.ret = NoRecord
        /\ last.op \in {"get", "get_multi", "create", "update", "delete"}

\* a get met the cut-off text a broken write had left in the file, and raised
C21_Witness ==
    /\ backend = "File" /\ damaged
    /\ last.op = "get" /\ last.fault = "read" /\ last.raised

\* ---- the HTTP handlers of routes/books.py, as a function of what the
\* repository call of the latest operation ended in
ById(op) == op \in {"get", "update", "delete", "rel_get", "rel_update", "rel_delete"}
Routed(op) == ById(op) \/ op \in {"create", "get_multi", "rel_create", "rel_get_multi"}

\* str(e) of the error a repository call raised
CrudError ==
    IF last.info # <<>> /\ last.info.raised THEN "Failed to search book"
    ELSE IF last.fault \in {"read", "write"}
    THEN (IF backend = "File" THEN "IOError" ELSE "ClientError")
    ELSE IF last.fault = "connect" THEN "OSError"
    ELSE "SQLAlchemyError"

CrudOutcome == IF last.raised THEN Raise(CrudError) ELSE Return(last.ret)

\* detail="Книга не найдена"
NotFoundDetail == "Kniga ne naidena"

\* the detail of the handler's HTTPException(status_code=500, ...)
FailedDetail(b, op) ==
    LET what == IF op \in {"create", "rel_create"} THEN "Failed to create book"
                ELSE IF op \in {"get_multi", "rel_get_multi"} THEN "Failed to fetch books"
                ELSE IF op \in {"get", "rel_get"} THEN "Failed to fetch book"
                ELSE IF op \in {"update", "rel_update"} THEN "Failed to update book"
                ELSE "Failed to delete book"
        where == IF b = "Relational" THEN ""
                 ELSE IF b = "File"
                 THEN (IF op = "create" THEN " in file" ELSE IF op = "update"
                       THEN " in file" ELSE " from file")
                 ELSE (IF op = "create" THEN " in JsonBin" ELSE IF op = "update"
                       THEN " in JsonBin" ELSE " from JsonBin")
    IN  what \o where

\* the try block of a handler: the repository call, then for the handlers by
\* id: if not book: raise HTTPException(status_code=404, ...)
HandlerBody(op, out) ==
    IF out.raised THEN out
    ELSE IF ById(op) /\ out.value = NoRecord THEN Raise("HTTPException 404")
    ELSE out

\* a handler whose only clause is except Exception
HandlerNoReraise(b, op, out) ==
    LET r == HandlerBody(op, out)
    IN  IF r.raised THEN [status |-> 500, detail |-> FailedDetail(b, op), body |-> NoRecord]
        ELSE [status |-> 200, detail |-> None, body |-> r.value]

\* a handler: except HTTPException: raise comes before except Exception
Handler(b, op, out) ==
    LET r == HandlerBody(op, out)
    IN  IF r.raised /\ r.error = "HTTPException 404"
        THEN [status |-> 404, detail |-> NotFoundDetail, body |-> NoRecord]
        ELSE IF r.raised
        THEN [status |-> 500, detail |-> FailedDetail(b, op), body |-> NoRecord]
        ELSE [status |-> 200, detail |-> None, body |-> r.value]

Response == Handler(backend, last.op, CrudOutcome)

\* C22: in every handler of every backend a not-found of read, update or
\* delete by id becomes the 404 response, every failure becomes a 500 response
\* whose message is the handler's fixed text and not the text of the error,
\* and a 500 is never the answer to a not-found
C22_HandlerResponses ==
    Routed(last.op) =>
        /\ (ById(last.op) /\ ~last.raised /\ last.ret = NoRecord) =>
              (Response.status = 404 /\ Response.detail = NotFoundDetail)
        /\ last.raised =>
              /\ Response.status = 500
              /\ Response.detail = FailedDetail(backend, last.op)
              /\ Response.detail # CrudError
        /\ Response.status = 500 => last.raised
        /\ (~last.raised /\ ~(ById(last.op) /\ last.ret = NoRecord)) =>
              (Response.status = 200 /\ Response.body = last.ret)

\* an update of an id that is not in the bin was answered with 404
C22_Witness ==
    /\ backend = "RemoteBin" /\ last.op = "update" /\ store # <<>>
    /\ ~last.raised /\ last.ret = NoRecord /\ Response.status = 404

\* what a mutation computes from the document data alone
Mutation(op, id, obj, data) ==
    IF backend = "File"
    THEN (IF op = "create" THEN FileCreate(data, obj)
          ELSE IF op = "update" THEN FileUpdate(data, id, obj)
          ELSE FileDelete(data, id))
    ELSE (IF op = "create" THEN JsonBinCreate([record |-> data], obj)
          ELSE IF op = "update" THEN JsonBinUpdate([record |-> data], id, obj)
          ELSE JsonBinDelete([record |-> data], id))

\* worker p writes in this step, another write having landed since its read
StaleWrite(p) ==
    /\ IsDoc /\ workers[p].pc = "write" /\ workers'[p].pc = "idle"
    /\ workers[p].snap # store

\* C23: two mutations of one document can both read the same snapshot; the
\* write that comes later then succeeds like the earlier one and replaces the
\* whole document by what its own operation makes of the snapshot, so the
\* earlier writer's change is not in the final record set
C23_LastWriterWins ==
    [][\A p \in Procs : StaleWrite(p) =>
          /\ ~last'.raised /\ last'.ret = workers[p].ret
          /\ store' = Mutation(workers[p].op, workers[p].id, workers[p].obj,
                                workers[p].snap).data]_vars

\* a RemoteBin update has been answered with success while a second update
\* of the same record, read from the same snapshot, is about to PUT a
\* document that lacks the first one's change
C23_Witness ==
    /\ backend = "RemoteBin" /\ raced
    /\ last.op = "update" /\ last.put /\ ~last.raised /\ store = last.post
    /\ store # last.pre
    /\ \E p \in Procs :
          /\ workers[p].pc = "write" /\ workers[p].op = "update"
          /\ workers[p].snap = last.pre /\ workers[p].id = last.id
          /\ workers[p].data # store
          /\ \E f \in DOMAIN last.obj :
                workers[p].data[FirstIndex(store, last.id)][f] # last.obj[f]

\* the latest step completed a RemoteBin operation
BinOp == backend = "RemoteBin" /\ last.op # "none"
Mutating(op) == op \in {"create", "update", "delete"}

\* C24 as stated: every RemoteBin operation begins with the GET and every
\* create, update and delete that meets no failure sends exactly two
\* requests, the GET and then one PUT
C24_AlwaysGetThenPut ==
    BinOp =>
        /\ last.http # <<>> /\ last.http[1] = "GET"
        /\ (Mutating(last.op) /\ last.fault = "none") => last.http = <<"GET", "PUT">>

\* C24 amended: every RemoteBin operation begins with the GET; a create, and
\* an update or delete that finds its record, sends exactly the GET and then
\* one PUT; an update or delete of an id that is not there, a get, a list and
\* every operation whose GET failed send the GET alone
C24_GetThenPutWhenFound ==
    BinOp =>
        /\ last.http \in {<<"GET">>, <<"GET", "PUT">>}
        /\ last.fault = "read" => last.http = <<"GET">>
        /\ ~Mutating(last.op) => last.http = <<"GET">>
        /\ (Mutating(last.op) /\ last.fault = "none") =>
              IF last.op = "create" \/ FirstIndex(last.pre, last.id) # 0
              THEN last.http = <<"GET", "PUT">>
              ELSE last.http = <<"GET">> /\ store = last.pre
        /\ last.fault = "write" => last.http = <<"GET", "PUT">>

\* a delete of an id that is not in a bin holding a record has ended after
\* its GET
C24_Witness ==
    /\ BinOp /\ last.op = "delete" /\ last.fault = "none" /\ store # <<>>
    /\ FirstIndex(last.pre, last.id) = 0 /\ last.http = <<"GET">>

\* every record the backend holds has a value in each required field
AllRequiredSet(data) ==
    \A i \in DOMAIN data : \A f \in RequiredFields : data[i][f] # None

\* C25: however the records were created and updated through payloads the
\* schemas accept, every stored record has a non-null title, author, year,
\* genre and pages
C25_RequiredFieldsNeverNull ==
    AllRequiredSet(store) /\ AllRequiredSet(table)

\* the File and the RemoteBin method give the same result, the same decision to
\* write and the same records for a call on the same records
SameOutcomes(data) ==
    LET response == [record |-> data]
    IN  /\ \A id \in IdArgs : FileGet(data, id) = JsonBinGet(response, id)
        /\ \A skip \in SkipArgs, limit \in LimitArgs :
              FileGetMulti(data, skip, limit) = JsonBinGetMulti(response, skip, limit)
        /\ \A obj_in \in CreatePayloads :
              FileCreate(data, obj_in) = JsonBinCreate(response, obj_in)
        /\ \A id \in IdArgs, obj_in \in UpdatePayloads :
              FileUpdate(data, id, obj_in) = JsonBinUpdate(response, id, obj_in)
        /\ \A id \in IdArgs : FileDelete(data, id) = JsonBinDelete(response, id)

\* the latest step completed a File or RemoteBin call that met no failure
CallDone == IsDoc /\ last.op # "none" /\ last.fault = "none"

\* what the File method and the RemoteBin method make of the latest call
FileDoes(data) ==
    IF last.op = "get" THEN FileGet(data, last.id)
    ELSE IF last.op = "get_multi" THEN FileGetMulti(data, last.skip, last.limit)
    ELSE IF last.op = "create" THEN FileCreate(data, last.obj)
    ELSE IF last.op = "update" THEN FileUpdate(data, last.id, last.obj)
    ELSE FileDelete(data, last.id)

JsonBinDoes(data) ==
    IF last.op = "get" THEN JsonBinGet([record |-> data], last.id)
    ELSE IF last.op = "get_multi" THEN JsonBinGetMulti([record |-> data], last.skip, last.limit)
    ELSE IF last.op = "create" THEN JsonBinCreate([record |-> data], last.obj)
    ELSE IF last.op = "update" THEN JsonBinUpdate([record |-> data], last.id, last.obj)
    ELSE JsonBinDelete([record |-> data], last.id)

\* C26: File and RemoteBin are observationally equivalent. From the same
\* records every call without a failure returns the same result and leaves the
\* same record sequence on either backend: the call just completed on one
\* backend returned and stored what the other backend's method gives for it,
\* and the two backends agree on every next call from the records reached
C26_FileRemoteBinEquivalent ==
    /\ IsDoc => SameOutcomes(store)
    /\ CallDone =>
          /\ FileDoes(last.pre) = JsonBinDoes(last.pre)
          /\ last.ret = FileDoes(last.pre).ret /\ store = FileDoes(last.pre).data
          /\ last.ret = JsonBinDoes(last.pre).ret /\ store = JsonBinDoes(last.pre).data

\* a RemoteBin list with an offset returned the second of two records
C26_Witness ==
    /\ backend = "RemoteBin" /\ CallDone /\ last.op = "get_multi"
    /\ last.skip = 1 /\ Len(store) = 2 /\ last.ret = <<store[2]>>

\* C27: a create on the RemoteBin backend that returns successfully returns an
\* id that no record stored by an earlier successful create carries, also when
\* the create ran between the GET and the PUT of another create
C27_CreatesReturnDifferentIds ==
    [][(backend = "RemoteBin" /\ CreateCompletes) =>
           last'.ret[1].id \notin Ids(store)]_vars

ReadOps == {"get", "get_multi", "rel_get", "rel_get_multi"}

\* C28: a get or a list leaves the persisted records of every backend as they
\* were, whether it returns a record, a page, not-found or fails: the file is
\* not written, no PUT is sent and the table keeps its rows
C28_ReadsChangeNothing ==
    [][last'.op \in ReadOps =>
          /\ store' = store /\ damaged' = damaged /\ table' = table
          /\ ~last'.put /\ last'.pre = last'.post
          /\ last'.http = (IF backend = "RemoteBin" THEN <<"GET">> ELSE <<>>)]_vars

\* a get of an id that is not in a bin holding a record returned not-found
\* after its GET
C28_Witness ==
    /\ backend = "RemoteBin" /\ last.op = "get" /\ ~last.raised
    /\ last.ret = NoRecord /\ store # <<>> /\ last.http = <<"GET">>

\* the step ends a File mutation with its write
FileCallEnds(p) ==
    backend = "File" /\ workers[p].pc = "write" /\ workers'[p].pc = "idle"

\* C29: on one event loop two File operations never interleave: an operation
\* writes while no other is between its read and its write, the file is still
\* what the operation read, and a write that succeeds leaves the records the
\* operation makes of the file as it is, so the outcome is that of running the
\* operations one after another and no change is lost
C29_FileCallsDoNotInterleave ==
    [][\A p \in Procs : FileCallEnds(p) =>
          /\ workers[p].snap = store
          /\ \A q \in Procs \ {p} : workers[q].pc = "idle"
          /\ ~last'.raised =>
                store' = Mutation(workers[p].op, workers[p].id, workers[p].obj, store).data]_vars

\* a File update has landed on a file that holds two records
C29_Witness ==
    /\ backend = "File" /\ JustWrote("update") /\ Len(store) = 2
    /\ last.pre # store

\* the latest operation called search on the lookup client
Searched ==
    \/ last.op \in {"rel_create", "fetch_external_book_info"}
    \/ last.op = "create_with_external_data" /\ last.fetch

\* C30: a search on a lookup client whose session is not open fails with the
\* lookup error before any request is sent, and a create of the relational
\* repository, which searches on every call, then ends in an error, returns
\* no record, rolls back and leaves the table and its id sequence as they were
C30_NoSessionNoCreate ==
    (backend = "Relational" /\ session = "none") =>
        /\ Searched => (last.info = Raise("ValueError") /\ last.requests = 0
                        /\ last.failed /\ last.search = <<>>)
        /\ last.op = "rel_create" =>
              /\ last.raised /\ last.ret = NoRecord /\ last.rollback
              /\ ~last.put /\ table = last.pre /\ last.post = last.pre

\* a create on the repository whose client was never entered has failed on
\* an empty table without a request
C30_Witness ==
    /\ backend = "Relational" /\ session = "none" /\ last.op = "rel_create"
    /\ last.raised /\ last.requests = 0 /\ table = <<>> /\ nextval = 1

====
